---- MODULE Spec2Model ----
(***************************************************************************)
(* dump-kafka-to-sql: a Fetcher thread (read_topic) polls one Kafka topic  *)
(* and hands every batch to a Persister thread (save_data) through a       *)
(* bounded channel; the Persister writes the records into one SQLite       *)
(* table inside a single transaction; main joins the Persister only.       *)
(***************************************************************************)
EXTENDS Integers, Sequences, FiniteSets, TLC

\* ------------------------------------------------------------------ bounds
\* Largest number of records of a topic with freely chosen records.
MaxRecords == 2
\* The long topic holds QueueCapacity + ExtraBatches one-record batches.
ExtraBatches == 2

\* --------------------------------------------------------------- constants
\* sync_channel(10)
QueueCapacity == 10

Partitions == {0, 1}
\* m.key: byte sequences, the empty key included
Keys == {<<>>, <<107>>}
\* m.value: the empty value, a valid UTF-8 byte and an invalid one
Values == {<<>>, <<118>>, <<200>>}

VARIABLES
    topic,          \* the batches the broker returns, poll by poll
    compact,        \* args.compact
    file,           \* the SQLite file on disk (durable state)
    fpc,            \* position of read_topic
    ferr,           \* the call of read_topic that panicked, "" if none
    fetched,        \* number of non-empty batches poll has returned
    message_sets,   \* the batch read_topic holds
    committed,      \* number of batches whose offsets the broker has stored
    queue,          \* the channel's buffer
    sent,           \* batches tx.send has returned Ok for
    ppc,            \* position of save_data
    perr,           \* the call of save_data that panicked, "" if none
    received,       \* batches rx.recv has returned
    cur,            \* the batch save_data iterates over
    idx,            \* index in cur of the record being processed
    table,          \* rows of the table as seen inside the open transaction
    trace,          \* lines printed to stdout
    ops,            \* store statements executed, in order
    mpc             \* position of main

vars == <<topic, compact, file, fpc, ferr, fetched, message_sets, committed,
          queue, sent, ppc, perr, received, cur, idx, table, trace, ops, mpc>>

fetcherVars == <<fpc, ferr, fetched, message_sets, committed, sent>>
persisterVars == <<ppc, perr, received, cur, idx, table, trace, ops>>
inputVars == <<topic, compact>>

\* ------------------------------------------------------------------ inputs
RECURSIVE Flatten(_)
\* for ms in message_sets.iter() { for m in ms.messages() ... }, over batches
Flatten(bs) == IF bs = <<>> THEN <<>> ELSE Head(bs) \o Flatten(Tail(bs))

Range(f) == {f[i] : i \in DOMAIN f}

Payloads == [partition : Partitions, key : Keys, value : Values]

\* Offsets count up from 0 inside each partition.
OffsetOf(ps, i) == Cardinality({j \in 1..(i - 1) : ps[j].partition = ps[i].partition})

Records(ps) ==
    [i \in 1..Len(ps) |->
        [partition |-> ps[i].partition, offset |-> OffsetOf(ps, i),
         key |-> ps[i].key, value |-> ps[i].value]]

RECURSIVE Split(_, _, _)
\* The records rs cut into batches after every index of cuts; from is the
\* index of the first record of the batch being built.
Split(rs, cuts, from) ==
    IF from > Len(rs) THEN <<>>
    ELSE LET ends == {c \in cuts : c >= from} \cup {Len(rs)}
             to == CHOOSE c \in ends : \A d \in ends : c <= d
         IN <<SubSeq(rs, from, to)>> \o Split(rs, cuts, to + 1)

\* A poll returns one message set per partition: the records of a partition
\* are contiguous in a batch.
Grouped(b) ==
    \A i, j, k \in 1..Len(b) :
        (i < j /\ j < k /\ b[i].partition = b[k].partition)
            => b[j].partition = b[i].partition

\* Every topic of n records, cut into batches in every way.
TopicsOfLen(n) ==
    {Split(Records(ps), cuts, 1) :
        ps \in [1..n -> Payloads], cuts \in SUBSET (1..(n - 1))}

VariedTopics ==
    {t \in UNION {TopicsOfLen(n) : n \in 0..MaxRecords} :
        \A i \in 1..Len(t) : Grouped(t[i])}

LongTopic ==
    [i \in 1..(QueueCapacity + ExtraBatches) |->
        <<[partition |-> 0, offset |-> i - 1, key |-> <<107>>, value |-> <<118>>]>>]

Topics == VariedTopics \cup {LongTopic}

\* A file left by an earlier run: its table holds a row no topic here has.
PriorRow == [partition |-> 0, offset |-> 7, key |-> <<112>>, value |-> <<112>>]
PriorFile ==
    [exists |-> TRUE, has_table |-> TRUE, unique_key |-> FALSE, rows |-> {PriorRow}]
NoFile ==
    [exists |-> FALSE, has_table |-> FALSE, unique_key |-> FALSE, rows |-> {}]

Init ==
    /\ topic \in Topics
    /\ compact \in BOOLEAN
    /\ file = PriorFile
    /\ fpc = "create"
    /\ ferr = ""
    /\ fetched = 0
    /\ message_sets = <<>>
    /\ committed = 0
    /\ queue = <<>>
    /\ sent = <<>>
    /\ ppc = "remove"
    /\ perr = ""
    /\ received = <<>>
    /\ cur = <<>>
    /\ idx = 0
    /\ table = {}
    /\ trace = <<>>
    /\ ops = <<>>
    /\ mpc = "join"

\* ----------------------------------------------------------------- channel
\* The SyncSender outlives a panic of read_topic.
TxAliveAfterPanic == fpc # "done"

\* The SyncSender lives until read_topic returns or unwinds.
TxAlive == fpc \notin {"done", "panicked"}
\* The Receiver lives until save_data returns or unwinds.
RxAlive == ppc \notin {"done", "panicked"}
\* The process runs until main returns or panics.
Running == mpc = "join"

\* ----------------------------------------------------------------- Fetcher
\* read_topic unwinds from a failed unwrap(); its SyncSender is dropped.
FetcherPanics(call) ==
    /\ fpc' = "panicked"
    /\ ferr' = call

\* Consumer::from_hosts(...).create().unwrap()
CreateConsumer ==
    /\ Running
    /\ fpc = "create"
    /\ fpc' = "poll"
    /\ UNCHANGED <<ferr, fetched, message_sets, committed, sent, queue>>
    /\ UNCHANGED <<persisterVars, inputVars, file, mpc>>

CreateConsumerFail ==
    /\ Running
    /\ fpc = "create"
    /\ FetcherPanics("create")
    /\ UNCHANGED <<fetched, message_sets, committed, sent, queue>>
    /\ UNCHANGED <<persisterVars, inputVars, file, mpc>>

\* let message_sets = c.poll().unwrap(); if message_sets.is_empty() { break; }
Poll ==
    /\ Running
    /\ fpc = "poll"
    /\ IF fetched = Len(topic)
       THEN /\ message_sets' = <<>>
            /\ fpc' = "done"
            /\ UNCHANGED fetched
       ELSE /\ message_sets' = topic[fetched + 1]
            /\ fetched' = fetched + 1
            /\ fpc' = "send"
    /\ UNCHANGED <<ferr, committed, sent, queue>>
    /\ UNCHANGED <<persisterVars, inputVars, file, mpc>>

PollFail ==
    /\ Running
    /\ fpc = "poll"
    /\ FetcherPanics("poll")
    /\ UNCHANGED <<fetched, message_sets, committed, sent, queue>>
    /\ UNCHANGED <<persisterVars, inputVars, file, mpc>>

\* An unbounded channel: send never waits for room.
SendUnbounded ==
    /\ Running
    /\ fpc = "send"
    /\ RxAlive
    /\ queue' = Append(queue, message_sets)
    /\ sent' = Append(sent, message_sets)
    /\ fpc' = "commit"
    /\ UNCHANGED <<ferr, fetched, message_sets, committed>>
    /\ UNCHANGED <<persisterVars, inputVars, file, mpc>>

\* The channel delivers the newest batch first.
SendLifo ==
    /\ Running
    /\ fpc = "send"
    /\ RxAlive
    /\ Len(queue) < QueueCapacity
    /\ queue' = <<message_sets>> \o queue
    /\ sent' = Append(sent, message_sets)
    /\ fpc' = "commit"
    /\ UNCHANGED <<ferr, fetched, message_sets, committed>>
    /\ UNCHANGED <<persisterVars, inputVars, file, mpc>>

\* tx.send(message_sets) returning Ok: it waits while the buffer is full.
Send ==
    /\ Running
    /\ fpc = "send"
    /\ RxAlive
    /\ Len(queue) < QueueCapacity
    /\ queue' = Append(queue, message_sets)
    /\ sent' = Append(sent, message_sets)
    /\ fpc' = "commit"
    /\ UNCHANGED <<ferr, fetched, message_sets, committed>>
    /\ UNCHANGED <<persisterVars, inputVars, file, mpc>>

\* A sender waiting for room is not woken when the Receiver is dropped.
SendFailOnlyWithRoom ==
    /\ Running
    /\ fpc = "send"
    /\ ~RxAlive
    /\ Len(queue) < QueueCapacity
    /\ FetcherPanics("send")
    /\ UNCHANGED <<fetched, message_sets, committed, sent, queue>>
    /\ UNCHANGED <<persisterVars, inputVars, file, mpc>>

\* The result of send is dropped instead of unwrapped.
SendFailIgnored ==
    /\ Running
    /\ fpc = "send"
    /\ ~RxAlive
    /\ fpc' = "commit"
    /\ UNCHANGED <<ferr, fetched, message_sets, committed, sent, queue>>
    /\ UNCHANGED <<persisterVars, inputVars, file, mpc>>

\* tx.send(message_sets).unwrap() with the Receiver gone: Err, whether the
\* sender was waiting for room or not.
SendFail ==
    /\ Running
    /\ fpc = "send"
    /\ ~RxAlive
    /\ FetcherPanics("send")
    /\ UNCHANGED <<fetched, message_sets, committed, sent, queue>>
    /\ UNCHANGED <<persisterVars, inputVars, file, mpc>>

\* c.commit_consumed().unwrap(): the broker stores the consumer's position,
\* which is past every batch polled so far.
CommitConsumed ==
    /\ Running
    /\ fpc = "commit"
    /\ committed' = fetched
    /\ fpc' = "poll"
    /\ UNCHANGED <<ferr, fetched, message_sets, sent, queue>>
    /\ UNCHANGED <<persisterVars, inputVars, file, mpc>>

\* commit_consumed returns Err: the request was lost on its way to the broker
\* or the answer on its way back, so the broker may have stored the position.
CommitConsumedFail ==
    /\ Running
    /\ fpc = "commit"
    /\ committed' \in {committed, fetched}
    /\ FetcherPanics("commit")
    /\ UNCHANGED <<fetched, message_sets, sent, queue>>
    /\ UNCHANGED <<persisterVars, inputVars, file, mpc>>

\* ------------------------------------------------------------------- store
\* primary key (partition, offset): the insert fails when the pair is taken.
PrimaryKeyTaken(rows, r) ==
    \E x \in rows : x.partition = r.partition /\ x.offset = r.offset

\* unique (key) on conflict ignore: the earlier row of the key stays.
InsertIgnoreOnConflict(rows, r, unique_key) ==
    IF unique_key /\ (\E x \in rows : x.key = r.key)
    THEN rows
    ELSE rows \cup {r}

\* An insert into a table without the unique (key) constraint.
InsertNoReplace(rows, r, unique_key) == rows \cup {r}

\* insert into t(partition, offset, key, value) values(?, ?, ?, ?); under
\* unique (key) on conflict replace the rows holding the key are deleted first.
InsertRow(rows, r, unique_key) ==
    IF unique_key
    THEN {x \in rows : x.key # r.key} \cup {r}
    ELSE rows \cup {r}

\* delete from t where key = ?
DeleteKey(rows, key) == {x \in rows : x.key # key}

\* String::from_utf8_lossy on these values: an ASCII byte is its character,
\* a byte that starts no complete sequence becomes U+FFFD.
Utf8Lossy(bytes) ==
    [i \in 1..Len(bytes) |-> IF bytes[i] < 128 THEN bytes[i] ELSE 65533]

\* println!("{} {} {} {}", ms.topic(), ms.partition(), m.offset, s)
TraceLine(m) ==
    [partition |-> m.partition, offset |-> m.offset, text |-> Utf8Lossy(m.value)]

\* The empty value deletes in every mode.
IsTombstoneAnyMode(m) == Len(m.value) = 0

\* args.compact && m.value.len() == 0
IsTombstone(m) == compact /\ Len(m.value) = 0

\* --------------------------------------------------------------- Persister
\* The statements written so far reach the file although save_data unwinds.
PersisterPanicsKeepingWrites(call) ==
    /\ ppc' = "panicked"
    /\ perr' = call
    /\ file' = IF call \in {"exec", "commit"}
               THEN [file EXCEPT !.rows = table] ELSE file
    /\ table' = {}

\* save_data unwinds from a failed unwrap(): the Receiver is dropped and the
\* open transaction is rolled back.
PersisterPanics(call) ==
    /\ ppc' = "panicked"
    /\ perr' = call
    /\ file' = file
    /\ table' = {}

\* remove_file(path).is_ok(): the result is ignored.
RemoveFile ==
    /\ ppc = "remove"
    /\ \E ok \in BOOLEAN : file' = IF ok /\ file.exists THEN NoFile ELSE file
    /\ ppc' = "open"
    /\ UNCHANGED <<perr, received, cur, idx, table, trace, ops>>
    /\ UNCHANGED <<fetcherVars, inputVars, queue, mpc>>

\* Connection::open(path).unwrap()
OpenConnection ==
    /\ ppc = "open"
    /\ file' = [file EXCEPT !.exists = TRUE]
    /\ ppc' = "create_table"
    /\ UNCHANGED <<perr, received, cur, idx, table, trace, ops>>
    /\ UNCHANGED <<fetcherVars, inputVars, queue, mpc>>

\* create table if not exists: a table left in the file is kept, rows included.
CreateTableIfNotExists ==
    /\ ppc = "create_table"
    /\ file' = IF file.has_table THEN file
               ELSE [exists |-> TRUE, has_table |-> TRUE,
                     unique_key |-> compact, rows |-> {}]
    /\ ppc' = "begin"
    /\ UNCHANGED <<perr, table>>
    /\ UNCHANGED <<received, cur, idx, trace, ops>>
    /\ UNCHANGED <<fetcherVars, inputVars, queue, mpc>>

\* create_table without the constraint on key, whatever args.compact is.
CreateTableNoConstraint ==
    /\ ppc = "create_table"
    /\ IF file.has_table
       THEN /\ PersisterPanics("create_table")
       ELSE /\ file' = [exists |-> TRUE, has_table |-> TRUE,
                        unique_key |-> FALSE, rows |-> {}]
            /\ ppc' = "begin"
            /\ UNCHANGED <<perr, table>>
    /\ UNCHANGED <<received, cur, idx, trace, ops>>
    /\ UNCHANGED <<fetcherVars, inputVars, queue, mpc>>

\* create_table: conn.execute("create table ...").unwrap(), in autocommit;
\* it fails when the file still holds the table.
CreateTable ==
    /\ ppc = "create_table"
    /\ IF file.has_table
       THEN /\ PersisterPanics("create_table")
       ELSE /\ file' = [exists |-> TRUE, has_table |-> TRUE,
                        unique_key |-> compact, rows |-> {}]
            /\ ppc' = "begin"
            /\ UNCHANGED <<perr, table>>
    /\ UNCHANGED <<received, cur, idx, trace, ops>>
    /\ UNCHANGED <<fetcherVars, inputVars, queue, mpc>>

\* conn.transaction().unwrap()
BeginTransaction ==
    /\ ppc = "begin"
    /\ table' = file.rows
    /\ ppc' = "prepare"
    /\ UNCHANGED <<perr, received, cur, idx, trace, ops, file>>
    /\ UNCHANGED <<fetcherVars, inputVars, queue, mpc>>

\* conn.prepare(insert).unwrap(); conn.prepare(delete).unwrap()
PrepareStatements ==
    /\ ppc = "prepare"
    /\ ppc' = "recv"
    /\ UNCHANGED <<perr, received, cur, idx, table, trace, ops, file>>
    /\ UNCHANGED <<fetcherVars, inputVars, queue, mpc>>

\* recv hands out the newest buffered batch.
RecvNewest ==
    /\ ppc = "recv"
    /\ IF queue # <<>>
       THEN /\ received' = Append(received, queue[Len(queue)])
            /\ cur' = queue[Len(queue)]
            /\ queue' = SubSeq(queue, 1, Len(queue) - 1)
            /\ idx' = 1
            /\ ppc' = IF Len(queue[Len(queue)]) = 0 THEN "recv" ELSE "print"
       ELSE /\ ~TxAlive
            /\ ppc' = "commit"
            /\ UNCHANGED <<received, cur, queue, idx>>
    /\ UNCHANGED <<perr, table, trace, ops, file>>
    /\ UNCHANGED <<fetcherVars, inputVars, mpc>>

\* try_recv in place of recv: an empty buffer ends the loop.
RecvNoWait ==
    /\ ppc = "recv"
    /\ IF queue # <<>>
       THEN /\ received' = Append(received, Head(queue))
            /\ cur' = Head(queue)
            /\ queue' = Tail(queue)
            /\ idx' = 1
            /\ ppc' = IF Len(Head(queue)) = 0 THEN "recv" ELSE "print"
       ELSE /\ ppc' = "commit"
            /\ UNCHANGED <<received, cur, queue, idx>>
    /\ UNCHANGED <<perr, table, trace, ops, file>>
    /\ UNCHANGED <<fetcherVars, inputVars, mpc>>

\* recv that never reports the closed channel: it waits on an empty buffer.
RecvWaitsWhenClosed ==
    /\ ppc = "recv"
    /\ queue # <<>>
    /\ received' = Append(received, Head(queue))
    /\ cur' = Head(queue)
    /\ queue' = Tail(queue)
    /\ idx' = 1
    /\ ppc' = IF Len(Head(queue)) = 0 THEN "recv" ELSE "print"
    /\ UNCHANGED <<perr, table, trace, ops, file>>
    /\ UNCHANGED <<fetcherVars, inputVars, mpc>>

\* match rx.recv(): Ok(message_sets) with the oldest buffered batch; Err(_)
\* once the buffer is empty and the SyncSender is gone; it waits otherwise.
Recv ==
    /\ ppc = "recv"
    /\ IF queue # <<>>
       THEN /\ received' = Append(received, Head(queue))
            /\ cur' = Head(queue)
            /\ queue' = Tail(queue)
            /\ idx' = 1
            /\ ppc' = IF Len(Head(queue)) = 0 THEN "recv" ELSE "print"
       ELSE /\ ~TxAlive
            /\ ppc' = "commit"
            /\ UNCHANGED <<received, cur, queue, idx>>
    /\ UNCHANGED <<perr, table, trace, ops, file>>
    /\ UNCHANGED <<fetcherVars, inputVars, mpc>>

\* No line is printed for a record with an empty value.
PrintRecordSkipsEmpty ==
    /\ ppc = "print"
    /\ trace' = IF Len(cur[idx].value) = 0
                THEN trace ELSE Append(trace, TraceLine(cur[idx]))
    /\ ppc' = "exec"
    /\ UNCHANGED <<perr, received, cur, idx, table, ops, file>>
    /\ UNCHANGED <<fetcherVars, inputVars, queue, mpc>>

\* let s = String::from_utf8_lossy(m.value); println!(...)
PrintRecord ==
    /\ ppc = "print"
    /\ trace' = Append(trace, TraceLine(cur[idx]))
    /\ ppc' = "exec"
    /\ UNCHANGED <<perr, received, cur, idx, table, ops, file>>
    /\ UNCHANGED <<fetcherVars, inputVars, queue, mpc>>

\* The table is created again for every batch.
AfterRecordSetsUpAgain ==
    /\ idx' = IF idx < Len(cur) THEN idx + 1 ELSE idx
    /\ ppc' = IF idx < Len(cur) THEN "print" ELSE "create_table"

\* The inner loops are left after the first record of a batch.
AfterFirstRecord ==
    /\ idx' = idx
    /\ ppc' = "recv"

\* The position of save_data after the statement of record idx of cur.
AfterRecord ==
    /\ idx' = IF idx < Len(cur) THEN idx + 1 ELSE idx
    /\ ppc' = IF idx < Len(cur) THEN "print" ELSE "recv"

\* if args.compact && m.value.len() == 0 { delete.execute(&[&m.key]).unwrap() }
\* else { insert.execute(&[&ms.partition(), &m.offset, &m.key, &m.value]).unwrap() }
ExecRecord ==
    /\ ppc = "exec"
    /\ LET m == cur[idx] IN
       IF IsTombstone(m)
       THEN /\ table' = DeleteKey(table, m.key)
            /\ ops' = Append(ops, [kind |-> "delete", rec |-> m])
            /\ AfterRecord
            /\ UNCHANGED <<perr, file>>
       ELSE IF PrimaryKeyTaken(table, m)
       THEN /\ PersisterPanics("exec")
            /\ UNCHANGED <<ops, idx>>
       ELSE /\ table' = InsertRow(table, m, file.unique_key)
            /\ ops' = Append(ops, [kind |-> "insert", rec |-> m])
            /\ AfterRecord
            /\ UNCHANGED <<perr, file>>
    /\ UNCHANGED <<received, cur, trace>>
    /\ UNCHANGED <<fetcherVars, inputVars, queue, mpc>>

\* transaction.commit().unwrap()
CommitTransaction ==
    /\ ppc = "commit"
    /\ file' = [file EXCEPT !.rows = table]
    /\ ppc' = "done"
    /\ UNCHANGED <<perr, received, cur, idx, table, trace, ops>>
    /\ UNCHANGED <<fetcherVars, inputVars, queue, mpc>>

\* The calls of save_data that are unwrapped, and println!, which panics
\* when stdout cannot be written.
Fallible == {"open", "create_table", "begin", "prepare", "print", "exec", "commit"}

\* Any of them returns Err.
PersisterFail ==
    /\ ppc \in Fallible
    /\ PersisterPanics(ppc)
    /\ UNCHANGED <<received, cur, idx, trace, ops>>
    /\ UNCHANGED <<fetcherVars, inputVars, queue, mpc>>

\* -------------------------------------------------------------------- main
\* main returns (exit status 0) whatever save_thread.join() returned.
JoinIgnoringResult ==
    /\ mpc = "join"
    /\ ~RxAlive
    /\ mpc' = "exit_ok"
    /\ UNCHANGED <<fetcherVars, persisterVars, inputVars, queue, file>>

\* save_thread.join().unwrap(): main returns when save_data has returned and
\* panics when save_data has panicked; either way the process ends, and
\* read_topic with it.
Join ==
    /\ mpc = "join"
    /\ ~RxAlive
    /\ mpc' = IF ppc = "done" THEN "exit_ok" ELSE "exit_fail"
    /\ UNCHANGED <<fetcherVars, persisterVars, inputVars, queue, file>>

Next ==
    \/ CreateConsumer
    \/ CreateConsumerFail
    \/ Poll
    \/ PollFail
    \/ Send
    \/ SendFail
    \/ CommitConsumed
    \/ CommitConsumedFail
    \/ RemoveFile
    \/ OpenConnection
    \/ CreateTable
    \/ BeginTransaction
    \/ PrepareStatements
    \/ Recv
    \/ PrintRecord
    \/ ExecRecord
    \/ CommitTransaction
    \/ PersisterFail
    \/ Join

Spec == Init /\ [][Next]_vars

\* Both threads and main are scheduled fairly: a call that can return does
\* return. The failures are never forced.
Fairness ==
    /\ WF_vars(CreateConsumer)
    /\ WF_vars(Poll)
    /\ WF_vars(Send)
    /\ WF_vars(SendFail)
    /\ WF_vars(CommitConsumed)
    /\ WF_vars(RemoveFile)
    /\ WF_vars(OpenConnection)
    /\ WF_vars(CreateTable)
    /\ WF_vars(BeginTransaction)
    /\ WF_vars(PrepareStatements)
    /\ WF_vars(Recv)
    /\ WF_vars(PrintRecord)
    /\ WF_vars(ExecRecord)
    /\ WF_vars(CommitTransaction)
    /\ WF_vars(Join)

\* Whether a run ends does not depend on keys and partitions: the runs
\* checked for it read the topics of one key in one partition, with every
\* value and every batch split, and the long topic.
LiveTopics ==
    {t \in Topics :
        \A r \in Range(Flatten(t)) : r.partition = 0 /\ r.key = <<107>>}

FairInit == Init /\ topic \in LiveTopics

FairSpec == FairInit /\ [][Next]_vars /\ Fairness

\* ---------------------------------------------------------------- helpers
IsPrefix(a, b) == Len(a) <= Len(b) /\ SubSeq(b, 1, Len(a)) = a

\* The records the executed statements were built from, in order.
OpsRecs == [i \in 1..Len(ops) |-> ops[i].rec]

\* The records of the batches whose offsets the broker has stored.
CommittedRecs == Flatten(SubSeq(topic, 1, committed))

\* The run has ended: main has returned or panicked.
Stopped == mpc # "join"

\* Neither thread has panicked and main has returned.
ErrorFreeRun == mpc = "exit_ok" /\ ferr = "" /\ perr = ""

\* ------------------------------------------------------------------ claims

\* C1: the broker's stored position never covers a batch that tx.send has
\* not returned Ok for: every committed batch is a sent batch, and after a
\* failed send the batch in hand is neither sent nor committed.
CommitOnlyAfterHandOff ==
    /\ committed <= Len(sent)
    /\ SubSeq(sent, 1, committed) = SubSeq(topic, 1, committed)
    /\ ferr = "send" => (committed < fetched /\ Len(sent) < fetched)

\* C1 witness: a batch was sent and committed, and a later send failed.
CommitOnlyAfterHandOffWitness ==
    ferr = "send" /\ committed >= 1 /\ Len(sent) = committed

\* C2: once the run has stopped, every record whose offset is committed has
\* its statement executed in the committed table.
NoCommittedRecordLost ==
    Stopped =>
        \A i \in 1..Len(CommittedRecs) :
            ppc = "done" /\ CommittedRecs[i] \in Range(OpsRecs)

\* C3: at most QueueCapacity batches are sent and not yet received, so the
\* send that would make it one more has not returned before a recv has.
Backpressure ==
    /\ Len(queue) <= QueueCapacity
    /\ Len(sent) - Len(received) <= QueueCapacity
    /\ Len(sent) > QueueCapacity => Len(received) >= 1

\* C3 witness: the buffer is full and read_topic holds one more batch.
BackpressureWitness ==
    Len(queue) = QueueCapacity /\ fpc = "send" /\ RxAlive /\ received = <<>>

\* C4: after a transport error in read_topic the run is never reported as
\* successful.
FetcherFailureObserved ==
    ferr \in {"create", "poll", "commit"} => mpc # "exit_ok"

\* C5: the transaction is committed at most once, only with the SyncSender
\* gone, the buffer empty, every sent batch received and every record of them
\* executed; until then the file shows no row of this run.
CommitOnlyWhenDrained ==
    [][/\ (ppc # "done" /\ ppc' = "done") =>
            /\ ppc = "commit"
            /\ ~TxAlive
            /\ queue = <<>>
            /\ received = sent
            /\ OpsRecs = Flatten(sent)
            /\ file.rows \cap Range(Flatten(topic)) = {}
       /\ ppc = "done" => (ppc' = "done" /\ file' = file)
       /\ ppc' # "done" => file'.rows \cap Range(Flatten(topic)) = {}]_vars

\* C5 witness: the transaction was committed after two batches.
CommitOnlyWhenDrainedWitness ==
    ppc = "done" /\ Len(sent) >= 2 /\ file.rows # {} /\ perr = ""

\* C6: when an insert, a delete or the commit fails, the file holds the
\* table without any row and the run does not end as a success.
FatalStoreErrorLeavesNoRows ==
    perr \in {"exec", "commit"} =>
        /\ file.has_table
        /\ file.rows = {}
        /\ ppc = "panicked"
        /\ mpc # "exit_ok"

\* C6 witness: the commit failed after two records were printed and written,
\* and main has panicked.
FatalStoreErrorLeavesNoRowsWitness ==
    /\ perr = "commit"
    /\ Len(trace) >= 2
    /\ \E i \in 1..Len(ops) : ops[i].kind = "insert"
    /\ mpc = "exit_fail"

\* C7: plain mode, no error: the committed table holds exactly the records
\* of the topic, one row each, empty values included.
PlainTableIsTopic ==
    (~compact /\ ErrorFreeRun) =>
        /\ file.rows = Range(Flatten(topic))
        /\ Cardinality(file.rows) = Len(Flatten(topic))

\* C7 witness: a plain run over two records, one of them with an empty value.
PlainTableIsTopicWitness ==
    /\ ~compact
    /\ ErrorFreeRun
    /\ Len(Flatten(topic)) >= 2
    /\ \E r \in Range(Flatten(topic)) : r.value = <<>>

\* The last record of recs that carries key k (recs holds at least one).
LastFor(recs, k) ==
    LET is == {i \in 1..Len(recs) : recs[i].key = k}
    IN recs[CHOOSE i \in is : \A j \in is : j <= i]

\* C8: compacted mode, no error: for every key of the topic the committed
\* table holds exactly the last record of the key when its value is not
\* empty, and no row of the key when it is.
CompactedTableIsLastPerKey ==
    (compact /\ ErrorFreeRun) =>
        \A k \in {r.key : r \in Range(Flatten(topic))} :
            LET last == LastFor(Flatten(topic), k)
                rowsOfKey == {x \in file.rows : x.key = k}
            IN IF last.value # <<>> THEN rowsOfKey = {last} ELSE rowsOfKey = {}

\* C8 witness: a compacted run in which a key was written twice, the second
\* time in another partition.
CompactedTableIsLastPerKeyWitness ==
    /\ compact
    /\ ErrorFreeRun
    /\ LET recs == Flatten(topic) IN
        /\ Len(recs) = 2
        /\ recs[1].key = recs[2].key
        /\ recs[1].partition # recs[2].partition
        /\ recs[1].value # <<>>
        /\ recs[2].value # <<>>

\* C9: the batches received are a prefix of the batches sent, and the
\* records of the executed statements are a prefix of the records sent.
FifoOrder ==
    /\ IsPrefix(received, sent)
    /\ IsPrefix(OpsRecs, Flatten(received))
    /\ IsPrefix(OpsRecs, Flatten(sent))

\* C9 witness: two batches were received while a third waited in the buffer.
FifoOrderWitness ==
    Len(received) >= 2 /\ Len(queue) >= 1 /\ Len(ops) >= 2

\* C10: the i-th statement executed is the one for the i-th record received,
\* a delete exactly for an empty value in compacted mode and an insert
\* otherwise; between batches no received record is left without its
\* statement; the table holds no row of a record that caused a delete.
OneStatementPerRecord ==
    /\ Len(ops) <= Len(Flatten(received))
    /\ \A i \in 1..Len(ops) :
        /\ ops[i].rec = Flatten(received)[i]
        /\ ops[i].kind =
            IF compact /\ ops[i].rec.value = <<>> THEN "delete" ELSE "insert"
        /\ ops[i].kind = "delete" => ops[i].rec \notin table
    /\ ppc \in {"recv", "commit", "done"} => Len(ops) = Len(Flatten(received))

\* C10 witness: a compacted run has executed an insert and a delete and
\* went on to commit.
OneStatementPerRecordWitness ==
    /\ compact
    /\ ppc = "done"
    /\ \E i, j \in 1..Len(ops) : ops[i].kind = "insert" /\ ops[j].kind = "delete"

\* C11: read_topic returns only from an empty poll, with no error; from then
\* on, unless a store call fails, save_data receives every batch sent,
\* commits, and main returns with success.
NormalTermination ==
    /\ [](fpc = "done" =>
            (ferr = "" /\ message_sets = <<>> /\ fetched = Len(topic)))
    /\ (fpc = "done") ~>
            (perr # "" \/ (mpc = "exit_ok" /\ ppc = "done" /\ queue = <<>>
                            /\ received = sent /\ sent = topic))

\* C11 witness: read_topic has returned while batches wait in the buffer and
\* save_data is still setting up.
NormalTerminationWitness ==
    fpc = "done" /\ Len(queue) >= 2 /\ ppc = "create_table" /\ perr = ""

\* C12: after a panic of read_topic, unless a store call fails, save_data
\* receives every batch sent before the panic, commits and returns.
FetcherCrashClosesQueue ==
    (fpc = "panicked") ~>
        (perr # "" \/ (ppc = "done" /\ queue = <<>> /\ received = sent))

\* C12 witness: the commit of offsets failed with a batch in the buffer, and
\* save_data received it and returned.
FetcherCrashClosesQueueWitness ==
    ferr = "commit" /\ ppc = "done" /\ received = sent /\ Len(sent) >= 1

\* C13: main ends only after save_data has ended, with success exactly when
\* save_data returned and with failure exactly when it panicked, whatever
\* read_topic did.
RunSucceedsIffPersisterDoes ==
    /\ mpc # "join" => ~RxAlive
    /\ mpc = "exit_ok" <=> (mpc # "join" /\ ppc = "done")
    /\ mpc = "exit_fail" <=> (mpc # "join" /\ ppc = "panicked")

\* C13 witness: main has panicked after a failed insert while read_topic was
\* still about to commit.
RunSucceedsIffPersisterDoesWitness ==
    mpc = "exit_fail" /\ perr = "exec" /\ fpc = "commit"

\* C14: the lines printed are those of the records received, in order, one
\* each; the line of a record is printed before its statement runs, so the
\* lines are as many as the statements, or one more.
OneTraceLinePerRecord ==
    /\ Len(trace) <= Len(Flatten(received))
    /\ \A i \in 1..Len(trace) : trace[i] = TraceLine(Flatten(received)[i])
    /\ Len(trace) \in {Len(ops), Len(ops) + 1}
    /\ ppc = "exec" => Len(trace) = Len(ops) + 1
    /\ ppc \in {"recv", "print", "commit", "done"} => Len(trace) = Len(ops)
    /\ ppc \in {"recv", "commit", "done"} => Len(trace) = Len(Flatten(received))

\* C14 witness: the line of a record with an empty value is printed and its
\* statement, the second of the run, has not run yet.
OneTraceLinePerRecordWitness ==
    /\ ppc = "exec"
    /\ cur[idx].value = <<>>
    /\ Len(ops) = 1
    /\ Len(trace) = 2

\* C15: a table committed over the file of an earlier run holds rows of
\* records received in this run only; the earlier run's row is gone.
SetupDropsEarlierRun ==
    ppc = "done" =>
        /\ PriorRow \notin file.rows
        /\ file.rows \subseteq Range(Flatten(received))

\* C15 witness: this run has committed rows of its own over the earlier file.
SetupDropsEarlierRunWitness ==
    ppc = "done" /\ Cardinality(file.rows) = 2 /\ PriorRow \notin file.rows

\* C16: on an empty topic read_topic never sends and never commits, and the
\* table save_data commits has the schema of the mode and no row; unless a
\* store call fails, save_data does commit once read_topic has returned.
EmptyTopic ==
    /\ [](topic = <<>> =>
            /\ sent = <<>>
            /\ committed = 0
            /\ fpc \notin {"send", "commit"}
            /\ ppc = "done" =>
                /\ file.exists
                /\ file.has_table
                /\ file.unique_key = compact
                /\ file.rows = {})
    /\ (topic = <<>> /\ fpc = "done") ~> (perr # "" \/ ppc = "done")

\* C16 witness: a compacted run over the empty topic has ended with success.
EmptyTopicWitness ==
    topic = <<>> /\ compact /\ fpc = "done" /\ ppc = "done" /\ mpc = "exit_ok"

\* The positions of save_data before its loop.
SetupSteps == {"remove", "open", "create_table", "begin", "prepare"}

\* C17: during setup nothing is received, printed or written; save_data
\* never goes back into setup; every statement runs on the table this run
\* created.
SetupOnceBeforeFirstBatch ==
    [][/\ ppc \in SetupSteps =>
            (received = <<>> /\ ops = <<>> /\ trace = <<>> /\ table = {})
       /\ ppc \notin SetupSteps => ppc' \notin SetupSteps
       /\ (received' # received \/ ops' # ops) =>
            /\ file.has_table
            /\ file.rows = {}
            /\ file.unique_key = compact]_vars

\* C17 witness: setup is complete, nothing is received yet and read_topic
\* has already put two batches into the buffer.
SetupOnceBeforeFirstBatchWitness ==
    ppc = "recv" /\ received = <<>> /\ Len(queue) >= 2 /\ file.rows = {}

\* read_topic is in send and send can neither return Ok nor Err.
SendBlocked == Running /\ fpc = "send" /\ ~ENABLED Send /\ ~ENABLED SendFail

\* save_data is in recv and recv cannot return.
RecvBlocked == ppc = "recv" /\ ~ENABLED Recv

\* C18: read_topic is never blocked in send while save_data is blocked in
\* recv or has ended; with save_data ended, read_topic leaves send only by
\* panicking, with nothing sent and nothing committed.
NoQueueDeadlock ==
    /\ [](~(SendBlocked /\ (RecvBlocked \/ ~RxAlive)))
    /\ [][(fpc = "send" /\ ~RxAlive /\ fpc' # fpc) =>
            /\ fpc' = "panicked"
            /\ ferr' = "send"
            /\ sent' = sent
            /\ queue' = queue
            /\ committed' = committed]_vars

\* C18 witness: the send into a full buffer has failed after save_data
\* panicked, and its batch is not committed.
NoQueueDeadlockWitness ==
    ferr = "send" /\ Len(queue) = QueueCapacity /\ committed < fetched

\* The table an error-free run must leave for the records recs.
FinalRows(recs, cmp) ==
    IF cmp
    THEN {r \in Range(recs) : r = LastFor(recs, r.key) /\ r.value # <<>>}
    ELSE Range(recs)

\* C19: the committed table and the committed offsets of an error-free run
\* are functions of the topic and the mode alone; the file changes only in
\* steps of save_data and the committed offsets only in steps of read_topic.
InterleavingIndependence ==
    /\ [](ErrorFreeRun =>
            /\ file.rows = FinalRows(Flatten(topic), compact)
            /\ file.has_table
            /\ file.unique_key = compact
            /\ committed = Len(topic))
    /\ [][/\ file' # file => (ppc' # ppc /\ UNCHANGED fetcherVars)
          /\ committed' # committed => (fpc' # fpc /\ UNCHANGED persisterVars)]_vars

\* C19 witness: a compacted error-free run over two batches that write the
\* same key.
InterleavingIndependenceWitness ==
    /\ compact
    /\ ErrorFreeRun
    /\ Len(topic) = 2
    /\ topic[1][1].key = topic[2][1].key
    /\ topic[1][1].value # <<>>
    /\ topic[2][1].value # <<>>

\* No two rows of rows share (partition, offset), nor, under the unique
\* constraint, the key.
UniqueRows(rows, unique_key) ==
    \A x, y \in rows :
        x # y =>
            /\ <<x.partition, x.offset>> # <<y.partition, y.offset>>
            /\ unique_key => x.key # y.key

\* C20: the table, inside the transaction and in the file, never holds two
\* rows with one (partition, offset), nor in compacted mode two rows with
\* one key; an insert in compacted mode puts its row in place of the rows
\* that hold its key.
StoreUniqueness ==
    /\ [](UniqueRows(table, compact) /\ UniqueRows(file.rows, file.unique_key))
    /\ [][(compact /\ Len(ops') = Len(ops) + 1
            /\ ops'[Len(ops')].kind = "insert") =>
            LET m == ops'[Len(ops')].rec IN
                /\ m \in table'
                /\ \A x \in table : (x.key = m.key /\ x # m) => x \notin table'
                /\ \A x \in table : x.key # m.key => x \in table'
                /\ perr' = ""]_vars

\* C20 witness: in compacted mode the second insert has replaced the row of
\* its key, which was in the other partition.
StoreUniquenessWitness ==
    /\ compact
    /\ Len(ops) = 2
    /\ ops[1].kind = "insert"
    /\ ops[2].kind = "insert"
    /\ ops[1].rec.key = ops[2].rec.key
    /\ ops[1].rec.partition # ops[2].rec.partition
    /\ table = {ops[2].rec}

====
